---- MODULE Spec2Model ----
(***************************************************************************)
(* State variable change notification of pyscript                          *)
(* (custom_components/pyscript/state.py, class State): the registry        *)
(* self.notify, the last-value cache self.notify_var_last, and the message *)
(* queues that State.update pushes to.                                     *)
(*                                                                         *)
(* A name is a Python str, modelled as the sequence of its characters, so  *)
(* that str.split(".") and the iteration of a str are computed, not        *)
(* assumed.  A dict whose iteration order the code depends on is modelled  *)
(* as the sequence of its items in insertion order.                        *)
(***************************************************************************)
EXTENDS Integers, Sequences, FiniteSets, TLC

VARIABLES notify, notify_var_last, queues, hist, prev,
          tasks, delivered, started, store

vars == <<notify, notify_var_last, queues, hist, prev,
          tasks, delivered, started, store>>

\* what the calls of notify_add, notify_del and the unsuspended update leave
\* alone: the suspended updates and their record, and the state store
others == <<tasks, delivered, started, store>>

(***************************************************************************)
(* Bounds of the model and the inputs the calls are drawn from.            *)
(***************************************************************************)
\* number of calls (notify_add, notify_del, update) in one behaviour
MaxOps == 3

Dot == "."

N_ab == <<"a", Dot, "b">>
N_cd == <<"c", Dot, "d">>
N_abx == <<"a", Dot, "b", Dot, "x">>
N_a == <<"a">>
N_abcd == <<"a", Dot, "b", Dot, "c", Dot, "d">>

Names == {N_ab, N_cd, N_abx, N_a, N_abcd}

\* the consumers' queues, identified by reference
Queues == {"q1", "q2"}

Vals == {1, 2}

\* the opaque func_args of update
Contexts == {"ctx1", "ctx2"}

\* The var_names argument: a list of names, or one bare str.
ListOf(names) == [isList |-> TRUE, names |-> names]
BareStr(name) == [isList |-> FALSE, names |-> <<name>>]

VarNamesInputs ==
    { ListOf(<<N_ab>>),
      ListOf(<<N_cd>>),
      ListOf(<<N_ab, N_cd>>),
      ListOf(<<N_abx>>),
      ListOf(<<N_abx, N_ab, N_cd>>),
      ListOf(<<N_a, N_cd, N_abcd, N_ab>>),
      BareStr(N_ab) }

\* The new_vars argument of update: the items of the dict, in its order.
NewVarsInputs ==
    { << <<N_ab, 1>> >>,
      << <<N_ab, 2>> >>,
      << <<N_cd, 1>> >>,
      << <<N_abx, 1>> >>,
      << <<N_ab, 1>>, <<N_cd, 2>> >>,
      << <<N_cd, 2>>, <<N_ab, 1>> >> }

(***************************************************************************)
(* Python primitives the code uses.                                        *)
(***************************************************************************)
\* str.split("."): the parts between the separators, empty parts included
RECURSIVE Split(_)
Split(s) ==
    IF \A i \in 1..Len(s) : s[i] # Dot
    THEN <<s>>
    ELSE LET i == CHOOSE j \in 1..Len(s) :
                      s[j] = Dot /\ \A m \in 1..(j - 1) : s[m] # Dot
         IN  <<SubSeq(s, 1, i - 1)>> \o Split(SubSeq(s, i + 1, Len(s)))

\* a key built from the domain part alone
StateVarNameDomainOnly(parts) == parts[1]

\* a key that keeps the attribute part of a three-part name
StateVarNameFull(parts) ==
    IF Len(parts) = 3
    THEN parts[1] \o <<Dot>> \o parts[2] \o <<Dot>> \o parts[3]
    ELSE parts[1] \o <<Dot>> \o parts[2]

\* f"{parts[0]}.{parts[1]}"
StateVarName(parts) == parts[1] \o <<Dot>> \o parts[2]

\* `for var_name in var_names if isinstance(var_names, list) else [var_names]`
AsList(var_names) == var_names.names

\* `for var_name in var_names`: a list yields its items, a str its
\* characters, each a str of length one
Iterate(var_names) ==
    IF var_names.isList
    THEN var_names.names
    ELSE [i \in 1..Len(var_names.names[1]) |-> <<var_names.names[1][i]>>]

\* `queue in d`
DictHas(d, queue) == \E i \in 1..Len(d) : d[i].queue = queue

\* an assignment that never finds the existing key
DictSetAppend(d, queue, var_names) ==
    Append(d, [queue |-> queue, var_names |-> var_names])

\* `d[queue] = var_names`: an existing key keeps its place, a new key is
\* appended
DictSet(d, queue, var_names) ==
    IF DictHas(d, queue)
    THEN [i \in 1..Len(d) |->
              IF d[i].queue = queue
              THEN [queue |-> queue, var_names |-> var_names]
              ELSE d[i]]
    ELSE Append(d, [queue |-> queue, var_names |-> var_names])

\* `del d[queue]`
RECURSIVE DictDel(_, _)
DictDel(d, queue) ==
    IF d = <<>> THEN <<>>
    ELSE IF Head(d).queue = queue THEN DictDel(Tail(d), queue)
    ELSE <<Head(d)>> \o DictDel(Tail(d), queue)

\* an accumulator that keeps one item per variable instead of one per queue
DictUpdateAppend(d, other) == d \o other

\* `d.update(other)`
RECURSIVE DictUpdate(_, _)
DictUpdate(d, other) ==
    IF other = <<>> THEN d
    ELSE DictUpdate(DictSet(d, Head(other).queue, Head(other).var_names),
                    Tail(other))

(***************************************************************************)
(* State.notify_add                                                        *)
(***************************************************************************)
\* a loop that ends at the first malformed name instead of skipping it
RECURSIVE NotifyAddBreak(_, _, _, _)
NotifyAddBreak(reg, var_names, queue, i) ==
    IF i > Len(AsList(var_names)) THEN reg
    ELSE LET var_name == AsList(var_names)[i]
             parts == Split(var_name)
         IN  IF Len(parts) # 2 /\ Len(parts) # 3
             THEN reg
             ELSE LET state_var_name == StateVarName(parts)
                      reg1 == IF state_var_name \notin DOMAIN reg
                              THEN reg @@ (state_var_name :> <<>>)
                              ELSE reg
                      reg2 == [reg1 EXCEPT ![state_var_name] =
                                   DictSet(@, queue, var_names)]
                  IN  NotifyAddBreak(reg2, var_names, queue, i + 1)

\* a loop that stores under each key the one name it is handling
RECURSIVE NotifyAddOwnName(_, _, _, _)
NotifyAddOwnName(reg, var_names, queue, i) ==
    IF i > Len(AsList(var_names)) THEN reg
    ELSE LET var_name == AsList(var_names)[i]
             parts == Split(var_name)
         IN  IF Len(parts) # 2 /\ Len(parts) # 3
             THEN NotifyAddOwnName(reg, var_names, queue, i + 1)
             ELSE LET state_var_name == StateVarName(parts)
                      reg1 == IF state_var_name \notin DOMAIN reg
                              THEN reg @@ (state_var_name :> <<>>)
                              ELSE reg
                      reg2 == [reg1 EXCEPT ![state_var_name] =
                                   DictSet(@, queue, ListOf(<<var_name>>))]
                  IN  NotifyAddOwnName(reg2, var_names, queue, i + 1)

RECURSIVE NotifyAddFrom(_, _, _, _)
NotifyAddFrom(reg, var_names, queue, i) ==
    IF i > Len(AsList(var_names)) THEN reg
    ELSE LET var_name == AsList(var_names)[i]
             parts == Split(var_name)
         IN  IF Len(parts) # 2 /\ Len(parts) # 3
             THEN NotifyAddFrom(reg, var_names, queue, i + 1)
             ELSE LET state_var_name == StateVarName(parts)
                      reg1 == IF state_var_name \notin DOMAIN reg
                              THEN reg @@ (state_var_name :> <<>>)
                              ELSE reg
                      reg2 == [reg1 EXCEPT ![state_var_name] =
                                   DictSet(@, queue, var_names)]
                  IN  NotifyAddFrom(reg2, var_names, queue, i + 1)

NotifyAddResult(reg, var_names, queue) == NotifyAddFrom(reg, var_names, queue, 1)

(***************************************************************************)
(* State.notify_del                                                        *)
(***************************************************************************)
\* a loop that skips a missing entry instead of returning at it
RECURSIVE NotifyDelContinue(_, _, _, _)
NotifyDelContinue(reg, var_names, queue, i) ==
    IF i > Len(AsList(var_names)) THEN reg
    ELSE LET var_name == AsList(var_names)[i]
             parts == Split(var_name)
         IN  IF Len(parts) # 2 /\ Len(parts) # 3
             THEN NotifyDelContinue(reg, var_names, queue, i + 1)
             ELSE LET state_var_name == StateVarName(parts)
                  IN  IF \/ state_var_name \notin DOMAIN reg
                         \/ ~DictHas(reg[state_var_name], queue)
                      THEN NotifyDelContinue(reg, var_names, queue, i + 1)
                      ELSE NotifyDelContinue(
                               [reg EXCEPT ![state_var_name] = DictDel(@, queue)],
                               var_names, queue, i + 1)

RECURSIVE NotifyDelFrom(_, _, _, _)
NotifyDelFrom(reg, var_names, queue, i) ==
    IF i > Len(AsList(var_names)) THEN reg
    ELSE LET var_name == AsList(var_names)[i]
             parts == Split(var_name)
         IN  IF Len(parts) # 2 /\ Len(parts) # 3
             THEN NotifyDelFrom(reg, var_names, queue, i + 1)
             ELSE LET state_var_name == StateVarName(parts)
                  IN  IF \/ state_var_name \notin DOMAIN reg
                         \/ ~DictHas(reg[state_var_name], queue)
                      THEN reg
                      ELSE NotifyDelFrom(
                               [reg EXCEPT ![state_var_name] = DictDel(@, queue)],
                               var_names, queue, i + 1)

NotifyDelResult(reg, var_names, queue) == NotifyDelFrom(reg, var_names, queue, 1)

(***************************************************************************)
(* State.notify_var_get                                                    *)
(***************************************************************************)
NotifyVarGet(last, var_names) ==
    LET it == Iterate(var_names)
        found == {it[i] : i \in {j \in 1..Len(it) : it[j] \in DOMAIN last}}
    IN  [var_name \in found |-> last[var_name]]

(***************************************************************************)
(* State.update                                                            *)
(***************************************************************************)
\* a cache that keeps the first value recorded for a variable
RecordLastKeepFirst(last, var_name, var_val) ==
    [n \in DOMAIN last \cup {var_name} |->
         IF n \in DOMAIN last THEN last[n] ELSE var_val]

\* `self.notify_var_last[var_name] = var_val`
RecordLast(last, var_name, var_val) ==
    [n \in DOMAIN last \cup {var_name} |->
         IF n = var_name THEN var_val ELSE last[n]]

\* a first loop that records every variable of the batch, registered or not
RECURSIVE UpdateCollectAll(_, _, _, _)
UpdateCollectAll(reg, last, acc, new_vars) ==
    IF new_vars = <<>> THEN [last |-> last, notify |-> acc]
    ELSE LET var_name == Head(new_vars)[1]
             var_val == Head(new_vars)[2]
             last1 == [n \in DOMAIN last \cup {var_name} |->
                           IF n = var_name THEN var_val ELSE last[n]]
         IN  IF var_name \in DOMAIN reg
             THEN UpdateCollectAll(reg, last1, DictUpdate(acc, reg[var_name]),
                                   Tail(new_vars))
             ELSE UpdateCollectAll(reg, last1, acc, Tail(new_vars))

\* the first loop: the cache and the local dict `notify` after it
RECURSIVE UpdateCollect(_, _, _, _)
UpdateCollect(reg, last, acc, new_vars) ==
    IF new_vars = <<>> THEN [last |-> last, notify |-> acc]
    ELSE LET var_name == Head(new_vars)[1]
             var_val == Head(new_vars)[2]
         IN  IF var_name \in DOMAIN reg
             THEN UpdateCollect(reg, RecordLast(last, var_name, var_val),
                                DictUpdate(acc, reg[var_name]), Tail(new_vars))
             ELSE UpdateCollect(reg, last, acc, Tail(new_vars))

\* ["state", [self.notify_var_get(var_names), func_args]]
Message(last, var_names, func_args) ==
    <<"state", <<NotifyVarGet(last, var_names), func_args>>>>

\* a second loop that returns after its first put
UpdateDeliverFirst(qs, last, acc, func_args) ==
    IF acc = <<>> THEN qs
    ELSE [qs EXCEPT ![Head(acc).queue] =
             Append(@, Message(last, Head(acc).var_names, func_args))]

\* the second loop: `await queue.put(...)` for every item of `notify`.  The
\* queues are unbounded, so no put suspends and the loop runs to its end.
RECURSIVE UpdateDeliver(_, _, _, _)
UpdateDeliver(qs, last, acc, func_args) ==
    IF acc = <<>> THEN qs
    ELSE UpdateDeliver(
             [qs EXCEPT ![Head(acc).queue] =
                 Append(@, Message(last, Head(acc).var_names, func_args))],
             last, Tail(acc), func_args)

(***************************************************************************)
(* The calls.  hist lists the calls made so far; prev is the state in      *)
(* which the last call started.                                            *)
(***************************************************************************)
NoVarNames == ListOf(<<>>)

Call(op, var_names, queue, new_vars, func_args) ==
    [op |-> op, var_names |-> var_names, queue |-> queue,
     new_vars |-> new_vars, func_args |-> func_args]

AddCall(var_names, queue) == Call("notify_add", var_names, queue, <<>>, "")
DelCall(var_names, queue) == Call("notify_del", var_names, queue, <<>>, "")
UpdateCall(new_vars, func_args) == Call("update", NoVarNames, "", new_vars, func_args)

Snapshot ==
    [notify |-> notify, notify_var_last |-> notify_var_last, queues |-> queues]

Init ==
    /\ notify = <<>>
    /\ notify_var_last = <<>>
    /\ queues = [q \in Queues |-> <<>>]
    /\ hist = <<>>
    /\ prev = [notify |-> <<>>, notify_var_last |-> <<>>,
               queues |-> [q \in Queues |-> <<>>]]
    /\ tasks = <<>>
    /\ delivered = <<>>
    /\ started = <<>>
    /\ store = <<>>

NotifyAdd(var_names, queue) ==
    /\ notify' = NotifyAddResult(notify, var_names, queue)
    /\ hist' = Append(hist, AddCall(var_names, queue))
    /\ prev' = Snapshot
    /\ UNCHANGED <<notify_var_last, queues, others>>

NotifyDel(var_names, queue) ==
    /\ notify' = NotifyDelResult(notify, var_names, queue)
    /\ hist' = Append(hist, DelCall(var_names, queue))
    /\ prev' = Snapshot
    /\ UNCHANGED <<notify_var_last, queues, others>>

Update(new_vars, func_args) ==
    /\ Len(hist) < MaxOps
    /\ LET c == UpdateCollect(notify, notify_var_last, <<>>, new_vars)
       IN  /\ notify_var_last' = c.last
           /\ queues' = UpdateDeliver(queues, c.last, c.notify, func_args)
    /\ hist' = Append(hist, UpdateCall(new_vars, func_args))
    /\ prev' = Snapshot
    /\ UNCHANGED <<notify, others>>

Next ==
    \/ \E var_names \in VarNamesInputs, queue \in Queues :
           Len(hist) < MaxOps /\ NotifyAdd(var_names, queue)
    \/ \E var_names \in VarNamesInputs, queue \in Queues :
           Len(hist) < MaxOps /\ NotifyDel(var_names, queue)
    \/ \E new_vars \in NewVarsInputs, func_args \in Contexts :
           Update(new_vars, func_args)

Spec == Init /\ [][Next]_vars

(***************************************************************************)
(* State.update with bounded queues.  `await queue.put(item)` builds the   *)
(* item, and suspends the call while the queue is full; a put onto a queue *)
(* with room does not yield, so update runs on to its next full queue.     *)
(* A consumer's get frees a place and wakes the longest waiting put of     *)
(* that queue; the woken call runs later, and waits anew if the place is   *)
(* taken by then.  notify_add and notify_del have no await: they run as a  *)
(* whole between the steps of the suspended updates.                       *)
(***************************************************************************)
\* number of calls in one behaviour with suspension
MaxCalls == 4

\* maxsize of the consumers' queues
QueueMaxSize == 1

\* a message another producer has put onto a consumer's queue
OtherMessage == <<"other", <<<<>>, "">>>>

\* what a queue may hold when the first call is made
Prefills == {[i \in 1..n |-> OtherMessage] : n \in 0..QueueMaxSize}

\* the calls of notify_add and notify_del made while updates are suspended
SuspendAdds ==
    { [var_names |-> ListOf(<<N_ab>>), queue |-> "q1"],
      [var_names |-> ListOf(<<N_ab>>), queue |-> "q2"],
      [var_names |-> ListOf(<<N_ab, N_cd>>), queue |-> "q2"] }

SuspendDels ==
    { [var_names |-> ListOf(<<N_ab, N_cd>>), queue |-> "q2"] }

SuspendUpdates ==
    { [new_vars |-> << <<N_ab, 1>> >>, func_args |-> "ctx1"],
      [new_vars |-> << <<N_ab, 2>> >>, func_args |-> "ctx2"],
      [new_vars |-> << <<N_cd, 1>> >>, func_args |-> "ctx2"] }

\* queue.full()
Full(qs, queue) == Len(qs[queue]) >= QueueMaxSize

\* the second loop from item acc[1] on, up to its end or to the first put
\* that suspends: the queues then, the puts done, the items left (the first
\* of them is the one whose put waits) and the item built for that put
RECURSIVE UpdatePuts(_, _, _, _)
UpdatePuts(qs, last, acc, func_args) ==
    IF acc = <<>>
    THEN [queues |-> qs, put |-> <<>>, waiting |-> <<>>, item |-> <<>>]
    ELSE LET queue == Head(acc).queue
             item == Message(last, Head(acc).var_names, func_args)
         IN  IF Full(qs, queue)
             THEN [queues |-> qs, put |-> <<>>, waiting |-> acc, item |-> item]
             ELSE LET r == UpdatePuts([qs EXCEPT ![queue] = Append(@, item)],
                                      last, Tail(acc), func_args)
                  IN  [r EXCEPT !.put = <<[queue |-> queue, item |-> item]>> \o @]

\* the record of the puts of call n, made when `at` calls had been made
Deliveries(put, n, at) ==
    [i \in 1..Len(put) |->
         [queue |-> put[i].queue, item |-> put[i].item, call |-> n, at |-> at]]

\* a suspended update: its call, its func_args, the items of its local dict
\* `notify` not yet put, the item built for the waiting put, and whether a
\* get has woken it
Task(n, func_args, waiting, item) ==
    [call |-> n, func_args |-> func_args, waiting |-> waiting,
     item |-> item, woken |-> FALSE]

RemoveAt(seq, i) == SubSeq(seq, 1, i - 1) \o SubSeq(seq, i + 1, Len(seq))

InitSuspend ==
    /\ notify = <<>>
    /\ notify_var_last = <<>>
    /\ queues \in {qs \in [Queues -> Prefills] : qs["q2"] = <<>>}
    /\ hist = <<>>
    /\ prev = [notify |-> <<>>, notify_var_last |-> <<>>,
               queues |-> [q \in Queues |-> <<>>]]
    /\ tasks = <<>>
    /\ delivered = <<>>
    /\ started = <<>>
    /\ store = <<>>

\* update, from its call to its return or its first suspension
UpdateStart(new_vars, func_args) ==
    /\ Len(hist) < MaxCalls
    /\ LET c == UpdateCollect(notify, notify_var_last, <<>>, new_vars)
           r == UpdatePuts(queues, c.last, c.notify, func_args)
           n == Len(hist) + 1
       IN  /\ notify_var_last' = c.last
           /\ queues' = r.queues
           /\ delivered' = delivered \o Deliveries(r.put, n, n)
           /\ tasks' = IF r.waiting = <<>> THEN tasks
                       ELSE Append(tasks, Task(n, func_args, r.waiting, r.item))
           /\ started' = started @@ (n :> notify)
    /\ hist' = Append(hist, UpdateCall(new_vars, func_args))
    /\ prev' = Snapshot
    /\ UNCHANGED <<notify, store>>

\* a second half that collects the items anew from the registry as it is
\* when the call resumes
ResumeRecollect(i) ==
    /\ i \in 1..Len(tasks)
    /\ tasks[i].woken
    /\ LET t == tasks[i]
           queue == Head(t.waiting).queue
           acc == UpdateCollect(notify, notify_var_last, <<>>,
                                hist[t.call].new_vars).notify
       IN  IF Full(queues, queue)
           THEN /\ tasks' = Append(RemoveAt(tasks, i), [t EXCEPT !.woken = FALSE])
                /\ UNCHANGED <<queues, delivered>>
           ELSE LET qs == [queues EXCEPT ![queue] = Append(@, t.item)]
                    r == UpdatePuts(qs, notify_var_last,
                                    SelectSeq(acc, LAMBDA e : e.queue # queue),
                                    t.func_args)
                IN  /\ queues' = r.queues
                    /\ delivered' =
                           delivered
                               \o Deliveries(<<[queue |-> queue, item |-> t.item]>>
                                                 \o r.put, t.call, Len(hist))
                    /\ tasks' = IF r.waiting = <<>> THEN RemoveAt(tasks, i)
                                ELSE Append(RemoveAt(tasks, i),
                                            Task(t.call, t.func_args,
                                                 r.waiting, r.item))
    /\ UNCHANGED <<notify, notify_var_last, hist, prev, started, store>>

\* a woken update runs on: it waits anew if the queue is full again, else it
\* puts the item it had built and goes on with the rest of its local dict,
\* reading the cache as it is now
Resume(i) ==
    /\ i \in 1..Len(tasks)
    /\ tasks[i].woken
    /\ LET t == tasks[i]
           queue == Head(t.waiting).queue
       IN  IF Full(queues, queue)
           THEN /\ tasks' = Append(RemoveAt(tasks, i), [t EXCEPT !.woken = FALSE])
                /\ UNCHANGED <<queues, delivered>>
           ELSE LET qs == [queues EXCEPT ![queue] = Append(@, t.item)]
                    r == UpdatePuts(qs, notify_var_last, Tail(t.waiting),
                                    t.func_args)
                IN  /\ queues' = r.queues
                    /\ delivered' =
                           delivered
                               \o Deliveries(<<[queue |-> queue, item |-> t.item]>>
                                                 \o r.put, t.call, Len(hist))
                    /\ tasks' = IF r.waiting = <<>> THEN RemoveAt(tasks, i)
                                ELSE Append(RemoveAt(tasks, i),
                                            Task(t.call, t.func_args,
                                                 r.waiting, r.item))
    /\ UNCHANGED <<notify, notify_var_last, hist, prev, started, store>>

\* the consumer takes the oldest item of its queue; the longest waiting put
\* of that queue is woken
QueueGet(queue) ==
    /\ queues[queue] # <<>>
    /\ queues' = [queues EXCEPT ![queue] = Tail(@)]
    /\ LET waiters == {i \in 1..Len(tasks) :
                          /\ ~tasks[i].woken
                          /\ Head(tasks[i].waiting).queue = queue}
       IN  tasks' = IF waiters = {} THEN tasks
                    ELSE LET first == CHOOSE i \in waiters :
                                          \A j \in waiters : i <= j
                         IN  [tasks EXCEPT ![first].woken = TRUE]
    /\ UNCHANGED <<notify, notify_var_last, hist, prev, delivered, started, store>>

NextSuspend ==
    \/ \E a \in SuspendAdds :
           Len(hist) < MaxCalls /\ NotifyAdd(a.var_names, a.queue)
    \/ \E d \in SuspendDels :
           Len(hist) < MaxCalls /\ NotifyDel(d.var_names, d.queue)
    \/ \E u \in SuspendUpdates : UpdateStart(u.new_vars, u.func_args)
    \/ \E i \in 1..MaxCalls : Resume(i)
    \/ \E queue \in Queues : QueueGet(queue)

SpecSuspend == InitSuspend /\ [][NextSuspend]_vars

\* a woken update is run by the event loop; nothing makes a consumer take
\* the items of its queue
SpecSuspendFair ==
    SpecSuspend /\ WF_vars(\E i \in 1..MaxCalls : Resume(i))

(***************************************************************************)
(* The published setter set_new (registered as state.set) and the store of *)
(* entities it writes: entity_id -> [state, attributes].                   *)
(***************************************************************************)
EmptyDict == <<>>

\* the attributes argument: None (the default) or a dict
NoAttributes == [isNone |-> TRUE, dict |-> EmptyDict]
AttributesOf(dict) == [isNone |-> FALSE, dict |-> dict]

EntityIds == {N_ab, N_cd, N_a}

AttributesInputs ==
    { NoAttributes,
      AttributesOf(EmptyDict),
      AttributesOf("x" :> 1),
      AttributesOf(("x" :> 2) @@ ("y" :> 2)) }

\* valid_entity_id: exactly two non-empty parts, domain.entity
ValidEntityId(entity_id) ==
    /\ Len(Split(entity_id)) = 2
    /\ Split(entity_id)[1] # <<>>
    /\ Split(entity_id)[2] # <<>>

\* hass.states.async_set(entity_id, new_state, attributes): the state is
\* replaced whole; attributes left out are stored as the empty dict
AsyncSet(st, entity_id, new_state, attributes) ==
    [e \in DOMAIN st \cup {entity_id} |->
        IF e = entity_id
        THEN [state |-> new_state,
              attributes |-> IF attributes.isNone THEN EmptyDict
                             ELSE attributes.dict]
        ELSE st[e]]

\* updated_attrs.update(attributes)
AttrsUpdate(old_attrs, attributes) ==
    [k \in DOMAIN old_attrs \cup DOMAIN attributes |->
        IF k \in DOMAIN attributes THEN attributes[k] ELSE old_attrs[k]]

\* a set_new that writes the given attributes without the existing ones
SetNewResultOverwrite(st, entity_id, new_state, attributes) ==
    IF ~ValidEntityId(entity_id) THEN st
    ELSE IF ~attributes.isNone /\ DOMAIN attributes.dict = {}
    THEN AsyncSet(st, entity_id, new_state, NoAttributes)
    ELSE LET old_attrs == IF entity_id \in DOMAIN st
                          THEN st[entity_id].attributes ELSE EmptyDict
             updated_attrs ==
                 IF ~attributes.isNone /\ DOMAIN attributes.dict # {}
                 THEN attributes.dict
                 ELSE old_attrs
         IN  AsyncSet(st, entity_id, new_state, AttributesOf(updated_attrs))

SetNewResult(st, entity_id, new_state, attributes) ==
    IF ~ValidEntityId(entity_id) THEN st
    ELSE IF ~attributes.isNone /\ DOMAIN attributes.dict = {}
    THEN AsyncSet(st, entity_id, new_state, NoAttributes)
    ELSE LET old_attrs == IF entity_id \in DOMAIN st
                          THEN st[entity_id].attributes ELSE EmptyDict
             updated_attrs ==
                 IF ~attributes.isNone /\ DOMAIN attributes.dict # {}
                 THEN AttrsUpdate(old_attrs, attributes.dict)
                 ELSE old_attrs
         IN  AsyncSet(st, entity_id, new_state, AttributesOf(updated_attrs))

SetCall(entity_id, new_state, attributes) ==
    [op |-> "set_new", entity_id |-> entity_id, new_state |-> new_state,
     attributes |-> attributes]

\* prev holds the store before the last call
InitSet ==
    /\ notify = <<>>
    /\ notify_var_last = <<>>
    /\ queues = [q \in Queues |-> <<>>]
    /\ hist = <<>>
    /\ prev = <<>>
    /\ tasks = <<>>
    /\ delivered = <<>>
    /\ started = <<>>
    /\ store = <<>>

SetNew(entity_id, new_state, attributes) ==
    /\ Len(hist) < MaxOps
    /\ store' = SetNewResult(store, entity_id, new_state, attributes)
    /\ hist' = Append(hist, SetCall(entity_id, new_state, attributes))
    /\ prev' = store
    /\ UNCHANGED <<notify, notify_var_last, queues, tasks, delivered, started>>

NextSet ==
    \E entity_id \in EntityIds, new_state \in Vals,
       attributes \in AttributesInputs :
        SetNew(entity_id, new_state, attributes)

SpecSet == InitSet /\ [][NextSet]_vars


(***************************************************************************)
(* Vocabulary of the properties, defined on the names themselves and on    *)
(* the registry, independently of the operators above.                     *)
(***************************************************************************)
\* the number of separators of a name
SepCount(name) == Cardinality({i \in 1..Len(name) : name[i] = Dot})

ValidName(name) == SepCount(name) \in {1, 2}

TwoPartNames == {name \in Names : SepCount(name) = 1}

\* the subscription key of a valid name: its domain.entity prefix
KeyOf(name) ==
    IF SepCount(name) = 1 THEN name
    ELSE LET second == CHOOSE i \in 1..Len(name) :
                           /\ name[i] = Dot
                           /\ Cardinality({j \in 1..(i - 1) : name[j] = Dot}) = 1
         IN  SubSeq(name, 1, second - 1)

\* the valid names of a var_names argument
ValidNamesOf(var_names) ==
    {AsList(var_names)[i] : i \in {j \in 1..Len(AsList(var_names)) :
                                       ValidName(AsList(var_names)[j])}}

\* consumer c is registered under key in registry reg
Registered(reg, c, key) ==
    key \in DOMAIN reg /\ \E i \in 1..Len(reg[key]) : reg[key][i].queue = c

\* consumer c is registered under key with exactly this request-list
RegisteredWith(reg, c, key, var_names) ==
    /\ key \in DOMAIN reg
    /\ \E i \in 1..Len(reg[key]) :
           reg[key][i] = [queue |-> c, var_names |-> var_names]

LastCall == hist[Len(hist)]

\* the names of an update batch
BatchNames(new_vars) == {new_vars[i][1] : i \in 1..Len(new_vars)}

\* the messages the last call pushed onto c's queue
Pushed(c) == SubSeq(queues[c], Len(prev.queues[c]) + 1, Len(queues[c]))

\* the last call left the earlier content of every queue in place
QueuesExtended ==
    \A c \in Queues :
        /\ Len(queues[c]) >= Len(prev.queues[c])
        /\ SubSeq(queues[c], 1, Len(prev.queues[c])) = prev.queues[c]

\* the behaviour so far is exactly these calls, in this order
Scenario(ops) ==
    /\ Len(hist) = Len(ops)
    /\ \A i \in 1..Len(ops) : hist[i].op = ops[i]

\* C1: from an empty registry, add([k], c) then update({k: v}, ctx) pushes
\* exactly one message onto c's queue, carrying {k: v} paired with ctx.
C1_AddUpdateDeliversOne ==
    Scenario(<<"notify_add", "update">>) =>
        \A k \in TwoPartNames, v \in Vals :
            ( /\ hist[1].var_names = ListOf(<<k>>)
              /\ hist[2].new_vars = << <<k, v>> >> )
            => queues[hist[1].queue] =
                   << <<"state", <<(k :> v), hist[2].func_args>>>> >>

C1_Witness ==
    /\ hist = <<AddCall(ListOf(<<N_cd>>), "q2"),
                UpdateCall(<< <<N_cd, 1>> >>, "ctx2")>>
    /\ Len(queues["q2"]) = 1

\* C2: batch consolidation: add([k1, k2], c) then one update of both names
\* pushes exactly one message onto c's queue, carrying {k1: v1, k2: v2}.
C2_BatchConsolidation ==
    Scenario(<<"notify_add", "update">>) =>
        \A k1 \in TwoPartNames, v1 \in Vals, v2 \in Vals :
            \A k2 \in TwoPartNames \ {k1} :
                ( /\ hist[1].var_names = ListOf(<<k1, k2>>)
                  /\ hist[2].new_vars \in { << <<k1, v1>>, <<k2, v2>> >>,
                                            << <<k2, v2>>, <<k1, v1>> >> } )
                => queues[hist[1].queue] =
                       << <<"state", <<(k1 :> v1) @@ (k2 :> v2),
                                       hist[2].func_args>>>> >>

C2_Witness ==
    /\ hist = <<AddCall(ListOf(<<N_ab, N_cd>>), "q1"),
                UpdateCall(<< <<N_cd, 2>>, <<N_ab, 1>> >>, "ctx1")>>
    /\ Len(queues["q1"]) = 1

\* C3: one update pushes exactly one message to each consumer registered
\* under at least one name of the batch and none to any other consumer, and
\* every message of the call carries the call's context.
C3_OneMessagePerAffected ==
    (hist # <<>> /\ LastCall.op = "update") =>
        /\ QueuesExtended
        /\ \A c \in Queues :
               IF \E name \in BatchNames(LastCall.new_vars) :
                      Registered(prev.notify, c, name)
               THEN /\ Len(Pushed(c)) = 1
                    /\ Pushed(c)[1][1] = "state"
                    /\ Pushed(c)[1][2][2] = LastCall.func_args
               ELSE Pushed(c) = <<>>

C3_Witness ==
    /\ Len(hist) = 3
    /\ hist[1].op = "notify_add"
    /\ hist[2].op = "notify_del"
    /\ LastCall.op = "update"
    /\ Len(Pushed("q1")) = 1
    /\ Pushed("q2") = <<>>
    /\ Registered(notify, "q1", N_cd)

\* C4: after add([k], c), update({k: v1}) and update({k: v2}), the cache
\* holds v2 for k while the message of the first update still carries
\* {k: v1}.
C4_LastValueRaceFree ==
    Scenario(<<"notify_add", "update", "update">>) =>
        \A k \in TwoPartNames, v1 \in Vals, v2 \in Vals :
            ( /\ hist[1].var_names = ListOf(<<k>>)
              /\ hist[2].new_vars = << <<k, v1>> >>
              /\ hist[3].new_vars = << <<k, v2>> >> )
            => /\ k \in DOMAIN notify_var_last
               /\ notify_var_last[k] = v2
               /\ NotifyVarGet(notify_var_last, ListOf(<<k>>)) = (k :> v2)
               /\ Len(queues[hist[1].queue]) = 2
               /\ queues[hist[1].queue][1] =
                      <<"state", <<(k :> v1), hist[2].func_args>>>>
               /\ queues[hist[1].queue][1] = prev.queues[hist[1].queue][1]

C4_Witness ==
    /\ hist = <<AddCall(ListOf(<<N_ab>>), "q1"),
                UpdateCall(<< <<N_ab, 1>> >>, "ctx1"),
                UpdateCall(<< <<N_ab, 2>> >>, "ctx2")>>
    /\ notify_var_last[N_ab] = 2
    /\ Len(queues["q1"]) = 2

\* C5: add(names, c) followed by remove(names, c) with the same list makes
\* every subsequent update deliver nothing to c.
C5_RemoveAfterAddSilences ==
    ( /\ Scenario(<<"notify_add", "notify_del", "update">>)
      /\ hist[2].var_names = hist[1].var_names
      /\ hist[2].queue = hist[1].queue )
    => queues[hist[1].queue] = <<>>

\* C6: an update whose batch holds only names that are no keys of the
\* registry pushes no message and leaves the registry and the cache as
\* they were.
C6_UnregisteredNoEffect ==
    ( /\ hist # <<>>
      /\ LastCall.op = "update"
      /\ \A name \in BatchNames(LastCall.new_vars) : name \notin DOMAIN prev.notify )
    => /\ queues = prev.queues
       /\ notify = prev.notify
       /\ notify_var_last = prev.notify_var_last

C6_Witness ==
    /\ Len(hist) = 3
    /\ LastCall.op = "update"
    /\ LastCall.new_vars # <<>>
    /\ \A name \in BatchNames(LastCall.new_vars) : name \notin DOMAIN prev.notify
    /\ \E c \in Queues : Registered(prev.notify, c, N_ab)
    /\ N_ab \in DOMAIN prev.notify_var_last
    /\ \E c \in Queues : prev.queues[c] # <<>>

\* C7: a malformed name creates no registry key, and add registers the
\* consumer under the key of every valid name of the call, wherever the
\* malformed names stand in the list.
C7_MalformedSkipped ==
    /\ \A key \in DOMAIN notify : SepCount(key) = 1
    /\ (hist # <<>> /\ LastCall.op = "notify_add") =>
           /\ DOMAIN notify =
                  DOMAIN prev.notify
                      \cup {KeyOf(name) : name \in ValidNamesOf(LastCall.var_names)}
           /\ \A name \in ValidNamesOf(LastCall.var_names) :
                  Registered(notify, LastCall.queue, KeyOf(name))

C7_Witness ==
    /\ hist = <<AddCall(ListOf(<<N_a, N_cd, N_abcd, N_ab>>), "q1")>>
    /\ DOMAIN notify = {N_ab, N_cd}
    /\ Registered(notify, "q1", N_ab)
    /\ Registered(notify, "q1", N_cd)

\* C8: a consumer has at most one request-list per key; a repeated add
\* leaves the registry as it was after the first; an add replaces the
\* consumer's request-list at every key of its names.
C8_AddIdempotentReplace ==
    /\ \A key \in DOMAIN notify :
           \A i \in 1..Len(notify[key]), j \in 1..Len(notify[key]) :
               notify[key][i].queue = notify[key][j].queue => i = j
    /\ ( /\ Len(hist) >= 2
         /\ LastCall.op = "notify_add"
         /\ hist[Len(hist) - 1] = LastCall ) => notify = prev.notify
    /\ (hist # <<>> /\ LastCall.op = "notify_add") =>
           \A name \in ValidNamesOf(LastCall.var_names) :
               RegisteredWith(notify, LastCall.queue, KeyOf(name),
                              LastCall.var_names)

C8_Witness ==
    /\ hist = <<AddCall(ListOf(<<N_ab>>), "q1"),
                AddCall(ListOf(<<N_abx, N_ab, N_cd>>), "q1"),
                AddCall(ListOf(<<N_abx, N_ab, N_cd>>), "q1")>>
    /\ notify = prev.notify
    /\ Len(notify[N_ab]) = 1
    /\ RegisteredWith(notify, "q1", N_ab, ListOf(<<N_abx, N_ab, N_cd>>))

\* C9: add(k, c) with k one bare name, not wrapped in a sequence, then
\* update({k: v}, ctx) delivers to c a message whose value mapping is
\* {k: v}.
C9_BareNameDelivered ==
    Scenario(<<"notify_add", "update">>) =>
        \A k \in TwoPartNames, v \in Vals :
            ( /\ hist[1].var_names = BareStr(k)
              /\ hist[2].new_vars = << <<k, v>> >> )
            => queues[hist[1].queue] =
                   << <<"state", <<(k :> v), hist[2].func_args>>>> >>

\* C10: for every registry built by add calls with name lists, the message
\* an update pushes to c holds name -> value for every name of the batch
\* under whose key c is registered with that name in its request-list.
C10_ConsolidatedBatchState ==
    ( /\ hist # <<>>
      /\ LastCall.op = "update"
      /\ \A i \in 1..(Len(hist) - 1) :
             hist[i].op = "notify_add" /\ hist[i].var_names.isList )
    => \A c \in Queues :
           \A i \in 1..Len(LastCall.new_vars) :
               LET name == LastCall.new_vars[i][1]
                   value == LastCall.new_vars[i][2]
               IN  ( /\ Registered(prev.notify, c, name)
                     /\ \E var_names \in VarNamesInputs :
                            /\ RegisteredWith(prev.notify, c, name, var_names)
                            /\ \E j \in 1..Len(var_names.names) :
                                   var_names.names[j] = name )
                   => /\ Len(Pushed(c)) = 1
                      /\ name \in DOMAIN Pushed(c)[1][2][1]
                      /\ Pushed(c)[1][2][1][name] = value

\* the names of a request-list, as the consumer passed them
RequestedNames(var_names) ==
    {var_names.names[i] : i \in 1..Len(var_names.names)}

\* the value mapping the claim of C11 expects for a request-list
RecordedOf(last, var_names) ==
    [name \in RequestedNames(var_names) \cap DOMAIN last |-> last[name]]

\* C11: the value mapping of every delivered message holds exactly the
\* names of the consumer's request-list that have a recorded value, each
\* with its current cached value; a name never recorded is omitted.
C11_MessageIsRecordedSubset ==
    (hist # <<>> /\ LastCall.op = "update") =>
        \A c \in Queues :
            Pushed(c) # <<>> =>
                \E name \in BatchNames(LastCall.new_vars) :
                    \E var_names \in VarNamesInputs :
                        /\ RegisteredWith(prev.notify, c, name, var_names)
                        /\ Pushed(c)[1][2][1] =
                               RecordedOf(notify_var_last, var_names)

\* C11 for request-lists passed as lists: holds, see C11_ListWitness
C11_ListFormRecordedSubset ==
    ( /\ hist # <<>>
      /\ LastCall.op = "update"
      /\ \A i \in 1..(Len(hist) - 1) :
             hist[i].op = "notify_add" => hist[i].var_names.isList )
    => \A c \in Queues :
           Pushed(c) # <<>> =>
               \E name \in BatchNames(LastCall.new_vars) :
                   \E var_names \in VarNamesInputs :
                       /\ RegisteredWith(prev.notify, c, name, var_names)
                       /\ Pushed(c)[1][2][1] =
                              RecordedOf(notify_var_last, var_names)

C11_ListWitness ==
    /\ hist = <<AddCall(ListOf(<<N_ab, N_cd>>), "q1"),
                UpdateCall(<< <<N_ab, 1>> >>, "ctx1")>>
    /\ queues["q1"] = << <<"state", <<(N_ab :> 1), "ctx1">>>> >>

\* C12: after add(["a.b.x"], c) the registry holds c under "a.b" with the
\* request-list ["a.b.x"] and has no key "a.b.x"; update({"a.b": v}) then
\* pushes exactly one message to c and update({"a.b.x": v}) none.
C12_IndexedByEntityKey ==
    \A name \in {n \in Names : SepCount(n) = 2} :
        /\ ( /\ hist # <<>>
             /\ hist[1].op = "notify_add"
             /\ hist[1].var_names = ListOf(<<name>>)
             /\ Len(hist) = 1 )
           => /\ DOMAIN notify = {KeyOf(name)}
              /\ name \notin DOMAIN notify
              /\ notify[KeyOf(name)] =
                     << [queue |-> hist[1].queue,
                         var_names |-> ListOf(<<name>>)] >>
        /\ ( /\ Scenario(<<"notify_add", "update">>)
             /\ hist[1].var_names = ListOf(<<name>>) )
           => /\ BatchNames(hist[2].new_vars) = {KeyOf(name)}
                  => Len(queues[hist[1].queue]) = 1
              /\ BatchNames(hist[2].new_vars) = {name}
                  => queues[hist[1].queue] = <<>>

C12_Witness ==
    /\ hist = <<AddCall(ListOf(<<N_abx>>), "q2"),
                UpdateCall(<< <<N_ab, 2>> >>, "ctx1")>>
    /\ RegisteredWith(notify, "q2", N_ab, ListOf(<<N_abx>>))
    /\ Len(queues["q2"]) = 1

\* the index of the name at which remove(var_names, c) stops in registry
\* reg: the first valid name whose key does not hold c, either in reg or
\* because an earlier name of the call had the same key; 0 if there is none
StopIndex(reg, var_names, c) ==
    LET names == var_names.names
        misses == {i \in 1..Len(names) :
                      /\ ValidName(names[i])
                      /\ \/ ~Registered(reg, c, KeyOf(names[i]))
                         \/ \E j \in 1..(i - 1) :
                                /\ ValidName(names[j])
                                /\ KeyOf(names[j]) = KeyOf(names[i])}
    IN  IF misses = {} THEN 0
        ELSE CHOOSE i \in misses : \A j \in misses : i <= j

\* the keys remove(var_names, c) deletes c from: those of the valid names
\* before the stop
RemovedKeys(reg, var_names, c) ==
    LET names == var_names.names
        stop == StopIndex(reg, var_names, c)
        last == IF stop = 0 THEN Len(names) ELSE stop - 1
    IN  {KeyOf(names[i]) : i \in {j \in 1..last : ValidName(names[j])}}

Without(d, c) == SelectSeq(d, LAMBDA item : item.queue # c)

\* C13: remove deletes c from the key of each name in order until the first
\* valid name whose key is absent or does not hold c, and stops there; the
\* registrations under the keys of later names stay, and malformed names
\* are skipped.
C13_RemoveStopsAtFirstMiss ==
    (hist # <<>> /\ LastCall.op = "notify_del") =>
        /\ DOMAIN notify = DOMAIN prev.notify
        /\ \A key \in DOMAIN notify :
               notify[key] =
                   IF key \in RemovedKeys(prev.notify, LastCall.var_names,
                                          LastCall.queue)
                   THEN Without(prev.notify[key], LastCall.queue)
                   ELSE prev.notify[key]

C13_Witness ==
    /\ hist = <<AddCall(ListOf(<<N_a, N_cd, N_abcd, N_ab>>), "q1"),
                AddCall(ListOf(<<N_abx, N_ab, N_cd>>), "q2"),
                DelCall(ListOf(<<N_abx, N_ab, N_cd>>), "q2")>>
    /\ StopIndex(prev.notify, LastCall.var_names, "q2") = 2
    /\ ~Registered(notify, "q2", N_ab)
    /\ Registered(notify, "q2", N_cd)
    /\ Registered(notify, "q1", N_ab)

\* the names whose cache entry the last call wrote or changed
CacheWritten ==
    {name \in DOMAIN notify_var_last :
         \/ name \notin DOMAIN prev.notify_var_last
         \/ prev.notify_var_last[name] # notify_var_last[name]}

\* C17 as stated: update writes name -> value into the cache only if at
\* that moment at least one consumer is registered under name.
C17_CacheOnlyWithSubscriber ==
    (hist # <<>> /\ LastCall.op = "update") =>
        \A name \in CacheWritten :
            \E c \in Queues : Registered(prev.notify, c, name)

\* C17 as amended: update writes name -> value into the cache only if name
\* is a name of the batch and a key of the registry, that is, a consumer
\* has been registered under it at some time; the key outlives the removal
\* of its last consumer.
C17_CacheOnlyForRegistryKey ==
    /\ (hist # <<>> /\ LastCall.op = "update") =>
           \A name \in CacheWritten :
               /\ name \in BatchNames(LastCall.new_vars)
               /\ name \in DOMAIN prev.notify
               /\ \E i \in 1..(Len(hist) - 1) :
                      /\ hist[i].op = "notify_add"
                      /\ name \in {KeyOf(n) : n \in ValidNamesOf(hist[i].var_names)}
    /\ (hist # <<>> /\ LastCall.op # "update") => CacheWritten = {}

C17_Witness ==
    /\ hist = <<AddCall(ListOf(<<N_ab>>), "q1"),
                DelCall(ListOf(<<N_ab>>), "q1"),
                UpdateCall(<< <<N_ab, 1>> >>, "ctx1")>>
    /\ notify[N_ab] = <<>>
    /\ CacheWritten = {N_ab}
    /\ notify_var_last[N_ab] = 1
    /\ queues["q1"] = <<>>

(***************************************************************************)
(* Properties of update with suspension (SpecSuspend, SpecSuspendFair).    *)
(***************************************************************************)
\* the calls of update made so far
UpdateCalls == DOMAIN started

\* the consumers call n affects: those registered under a name of its batch
\* in the registry as it was when the call started
Affected(n) ==
    {c \in Queues : \E name \in BatchNames(hist[n].new_vars) :
                        Registered(started[n], c, name)}

\* the consumers call n has put its message to, and those it has yet to
DeliveredTo(n) ==
    {delivered[j].queue : j \in {k \in 1..Len(delivered) : delivered[k].call = n}}

AwaitedBy(n) ==
    UNION {{tasks[i].waiting[j].queue : j \in 1..Len(tasks[i].waiting)} :
               i \in {k \in 1..Len(tasks) : tasks[k].call = n}}

\* call n waits at the full queue of another consumer while consumer c,
\* whose queue has room, has yet to get the message of call n
Stalled(n, c) ==
    \E i \in 1..Len(tasks) :
        /\ tasks[i].call = n
        /\ Head(tasks[i].waiting).queue # c
        /\ Full(queues, Head(tasks[i].waiting).queue)
        /\ \E j \in 2..Len(tasks[i].waiting) : tasks[i].waiting[j].queue = c
        /\ ~Full(queues, c)

\* C14: the suspension of the push onto one consumer's full queue, never
\* drained, does not prevent delivery to the other affected consumers:
\* each of them whose queue has room eventually gets its message.
C14_OthersEventuallyDelivered ==
    \A n \in 1..MaxCalls, c \in Queues :
        Stalled(n, c) ~> (c \in DeliveredTo(n) \/ Full(queues, c))

\* the calls of notify_add and notify_del for queue c among calls lo..hi
RegistryCalls(c, lo, hi) ==
    {m \in lo..hi : /\ hist[m].op \in {"notify_add", "notify_del"}
                    /\ hist[m].queue = c}

KeysOf(var_names) == {KeyOf(name) : name \in ValidNamesOf(var_names)}

\* C15: an update never sees a multi-name add or remove half-applied: in
\* the registry it reads, every request-list is a complete list passed to
\* one add call, a consumer whose last registry call was add(names, c) is
\* under the keys of all names, and one whose last calls were add(names, c)
\* and remove(names, c) with names of distinct keys is under none of them;
\* the same holds of the items a suspended update still has to put.
C15_AtomicRegistryView ==
    /\ \A n \in UpdateCalls :
           /\ \A key \in DOMAIN started[n] :
                  \A i \in 1..Len(started[n][key]) :
                      \E m \in 1..(n - 1) :
                          /\ hist[m] = AddCall(started[n][key][i].var_names,
                                               started[n][key][i].queue)
                          /\ key \in KeysOf(hist[m].var_names)
           /\ \A m \in 1..(n - 1) :
                  ( /\ hist[m].op = "notify_add"
                    /\ RegistryCalls(hist[m].queue, m + 1, n - 1) = {} )
                  => \A key \in KeysOf(hist[m].var_names) :
                         RegisteredWith(started[n], hist[m].queue, key,
                                        hist[m].var_names)
           /\ \A m \in 2..(n - 1) :
                  ( /\ hist[m].op = "notify_del"
                    /\ RegistryCalls(hist[m].queue, m + 1, n - 1) = {}
                    /\ \E m0 \in 1..(m - 1) :
                           /\ hist[m0] = AddCall(hist[m].var_names, hist[m].queue)
                           /\ RegistryCalls(hist[m].queue, m0 + 1, m - 1) = {}
                    /\ Cardinality(KeysOf(hist[m].var_names)) =
                           Len(hist[m].var_names.names) )
                  => \A key \in KeysOf(hist[m].var_names) :
                         ~Registered(started[n], hist[m].queue, key)
    /\ \A i \in 1..Len(tasks) :
           \A j \in 1..Len(tasks[i].waiting) :
               \E m \in 1..(tasks[i].call - 1) :
                   hist[m] = AddCall(tasks[i].waiting[j].var_names,
                                     tasks[i].waiting[j].queue)

C15_Witness ==
    /\ Len(hist) = 4
    /\ hist[3].op = "update"
    /\ hist[4].op = "notify_del"
    /\ \E i \in 1..Len(tasks) :
           /\ tasks[i].call = 3
           /\ Head(tasks[i].waiting).queue = "q2"
    /\ RegisteredWith(started[3], "q2", N_ab, ListOf(<<N_ab, N_cd>>))
    /\ RegisteredWith(started[3], "q2", N_cd, ListOf(<<N_ab, N_cd>>))
    /\ ~Registered(notify, "q2", N_ab)
    /\ ~Registered(notify, "q2", N_cd)

\* C18: every message pairs a call's context with that call's own batch
\* values: a message of call n never carries, for a name of the batch of
\* call n, a value other than the one of that batch.
C18_MessageOfOwnBatch ==
    \A k \in 1..Len(delivered) :
        LET n == delivered[k].call
            values == delivered[k].item[2][1]
        IN  /\ delivered[k].item[2][2] = hist[n].func_args
            /\ \A i \in 1..Len(hist[n].new_vars) :
                   hist[n].new_vars[i][1] \in DOMAIN values
                   => values[hist[n].new_vars[i][1]] = hist[n].new_vars[i][2]

\* C19: the consumers an update notifies, and the request-list used for
\* each, are those of the registry as it was when the call started,
\* whatever add and remove do while the call is suspended.
C19_NotifiedSetFixedAtStart ==
    \A n \in UpdateCalls :
        /\ DeliveredTo(n) \cup AwaitedBy(n) = Affected(n)
        /\ DeliveredTo(n) \cap AwaitedBy(n) = {}
        /\ Cardinality({k \in 1..Len(delivered) : delivered[k].call = n}) =
               Cardinality(DeliveredTo(n))
        /\ \A i \in 1..Len(tasks) :
               tasks[i].call = n =>
                   \A j \in 1..Len(tasks[i].waiting) :
                       \E name \in BatchNames(hist[n].new_vars) :
                           RegisteredWith(started[n], tasks[i].waiting[j].queue,
                                          name, tasks[i].waiting[j].var_names)
        /\ \A k \in 1..Len(delivered) :
               delivered[k].call = n =>
                   \E name \in BatchNames(hist[n].new_vars) :
                       /\ name \in DOMAIN started[n]
                       /\ \E i \in 1..Len(started[n][name]) :
                              /\ started[n][name][i].queue = delivered[k].queue
                              /\ DOMAIN delivered[k].item[2][1] \subseteq
                                     RequestedNames(started[n][name][i].var_names)

\* a consumer removed while the call was suspended still got its message
C19_Witness ==
    /\ Len(hist) = 4
    /\ hist[3].op = "update"
    /\ hist[4] = DelCall(ListOf(<<N_ab, N_cd>>), "q2")
    /\ tasks = <<>>
    /\ \E k \in 1..Len(delivered) :
           /\ delivered[k].queue = "q2"
           /\ delivered[k].call = 3
           /\ delivered[k].at = 4
    /\ ~Registered(notify, "q2", N_ab)

\* C20: per-consumer delivery order follows update order: of two updates
\* that affect consumer c, the message of the one that started first is put
\* onto c's queue first.
C20_DeliveryInCallOrder ==
    \A j1 \in 1..Len(delivered), j2 \in 1..Len(delivered) :
        ( /\ j1 < j2
          /\ delivered[j1].queue = delivered[j2].queue )
        => delivered[j1].call < delivered[j2].call

\* the attributes an entity has in store st: none when it does not exist
AttributesIn(st, entity_id) ==
    IF entity_id \in DOMAIN st THEN st[entity_id].attributes ELSE EmptyDict

\* C16: set_new writes nothing for an invalid entity name; with an explicit
\* empty attribute override it writes the new value with all attributes
\* cleared; otherwise it writes the new value, keeps the existing
\* attributes and merges the overrides over them (an override wins on a
\* shared name, attributes not overridden are unchanged); no other entity
\* is touched.
C16_SetNewWrites ==
    hist # <<>> =>
        LET e == LastCall.entity_id
            given == LastCall.attributes
            old == AttributesIn(prev, e)
            new == AttributesIn(store, e)
        IN  IF SepCount(e) # 1 THEN store = prev
            ELSE /\ DOMAIN store = DOMAIN prev \cup {e}
                 /\ \A other \in DOMAIN prev \ {e} : store[other] = prev[other]
                 /\ store[e].state = LastCall.new_state
                 /\ IF ~given.isNone /\ given.dict = EmptyDict
                    THEN DOMAIN new = {}
                    ELSE /\ DOMAIN new = DOMAIN old \cup DOMAIN given.dict
                         /\ \A k \in DOMAIN given.dict : new[k] = given.dict[k]
                         /\ \A k \in DOMAIN old \ DOMAIN given.dict :
                                new[k] = old[k]

\* an override of x over existing attributes x and y: x replaced, y kept
C16_Witness ==
    /\ Len(hist) = 3
    /\ hist[2] = SetCall(N_ab, 1, AttributesOf(("x" :> 2) @@ ("y" :> 2)))
    /\ hist[3] = SetCall(N_ab, 2, AttributesOf("x" :> 1))
    /\ prev[N_ab].attributes = (("x" :> 2) @@ ("y" :> 2))
    /\ store[N_ab] = [state |-> 2, attributes |-> (("x" :> 1) @@ ("y" :> 2))]

====
